---- MODULE Spec2Model ----
(***************************************************************************)
(* A model of the vision package: the Camera wrapper around a video        *)
(* capture device (vision/start_camera.py) and the ObjectDetection frame   *)
(* processor (vision/detect.py).                                           *)
(***************************************************************************)
EXTENDS Integers, Sequences, FiniteSets, TLC

(***************************************************************************)
(* Bounds of the model.                                                    *)
(***************************************************************************)
\* How many cv2.VideoCapture objects one Camera may create (calls of start()).
MaxHandles == 3
\* The largest pixel coordinate of the boxes given to the geometry methods.
MaxCoord == 2
\* The most detections of one frame.
MaxDet == 2

(***************************************************************************)
(* Camera (vision/start_camera.py)                                         *)
(***************************************************************************)
\* self.cap = None: no VideoCapture object is bound; handles are 1..MaxHandles.
None == 0

Handles == 1..MaxHandles

\* Values the caller passes for width, height and fps.
Widths == {640, 1280}
Heights == {480, 720}
FpsValues == {30, 60}

\* No property has been requested of the VideoCapture bound to self.cap.
Unset == [w |-> 0, h |-> 0, fps |-> 0]

\* The two exceptions of get_frame and the one of start, by their messages.
ErrNotOpened == "Error: Camera is not opened"
ErrCapture == "Error: Failed to capture frame from the camera"
ErrOpen == "Error: Unable to open the camera"

VARIABLES
    cap,          \* self.cap: None or the VideoCapture object bound last
    opened,       \* for each VideoCapture object created, its isOpened()
    created,      \* how many VideoCapture objects start() has created
    width,        \* self.width
    height,       \* self.height
    fps,          \* self.fps
    devReq,       \* the properties last requested through self.cap (cap.set)
    lastOp,       \* the Camera method called last
    prevOp,       \* the Camera method called before it
    lastArg,      \* its arguments
    outcome,      \* what it returned or raised
    lastReads,    \* the cap.read() calls it made
    lastReleases  \* the cap.release() calls it made

camVars == <<cap, opened, created, width, height, fps, devReq,
             lastOp, prevOp, lastArg, outcome, lastReads, lastReleases>>

VARIABLES
    object_height,  \* self.object_height, a rational number of metres
    camera_matrix,  \* self.camera_matrix and the kind of number it holds
    model,          \* self.model: what the rows of its boxes.xyxy expose
    call,           \* the ObjectDetection method (or the reload) called last
    bbox,           \* the bounding box given to calculate_distance/get_center
    returned,       \* what the call returned or raised
    results,        \* self.model(frame) of the frame processed last
    frame,          \* what has been drawn on that frame, in drawing order
    object_data,    \* the dictionary the caller got from process_frame last
    file,           \* the named output file
    writes          \* the writes of the output file the call made

detVars == <<object_height, camera_matrix, model, call, bbox, returned,
             results, frame, object_data, file, writes>>

vars == <<camVars, detVars>>

\* Camera.is_opened: self.cap.isOpened() if self.cap else False
is_opened == IF cap # None THEN opened[cap] ELSE FALSE

\* Camera.__init__: the fields are stored and no device is touched.
CameraInit ==
    /\ cap = None
    /\ opened = [h \in Handles |-> FALSE]
    /\ created = 0
    /\ width \in Widths
    /\ height \in Heights
    /\ fps \in FpsValues
    /\ devReq = Unset
    /\ lastOp = "init"
    /\ prevOp = "init"
    /\ lastArg = <<>>
    /\ outcome = "ok"
    /\ lastReads = 0
    /\ lastReleases = 0

\* What becomes of the VideoCapture that start() unbinds from self.cap. The
\* method never releases it: it stays open unless the runtime finalizes the
\* unreferenced object, which closes it. Both are possible.
Rebind(h, ok, finalized) ==
    [x \in Handles |->
        IF x = h THEN ok
        ELSE IF x = cap /\ finalized THEN FALSE
        ELSE opened[x]]

\* Camera.start: a new VideoCapture replaces self.cap; if it did not open the
\* method raises before any property is set.
start ==
    /\ created < MaxHandles
    /\ \E ok \in BOOLEAN, finalized \in BOOLEAN :
        LET h == created + 1 IN
        /\ ~is_opened => ~finalized
        /\ created' = h
        /\ cap' = h
        /\ opened' = Rebind(h, ok, finalized)
        /\ devReq' = IF ok THEN [w |-> width, h |-> height, fps |-> fps]
                     ELSE Unset
        /\ outcome' = IF ok THEN "ok" ELSE ErrOpen
    /\ lastOp' = "start"
    /\ prevOp' = lastOp
    /\ lastArg' = <<>>
    /\ lastReads' = 0
    /\ lastReleases' = 0
    /\ UNCHANGED <<width, height, fps>>
    /\ UNCHANGED detVars

\* Camera.get_frame with the isOpened() test of its guard left out.
get_frame_NoOpenTest ==
    /\ \/ /\ cap = None
          /\ outcome' = ErrNotOpened
          /\ lastReads' = 0
       \/ /\ cap # None
          /\ \E ret \in BOOLEAN :
                outcome' = IF ret THEN "frame" ELSE ErrCapture
          /\ lastReads' = 1
    /\ lastOp' = "get_frame"
    /\ prevOp' = lastOp
    /\ lastArg' = <<>>
    /\ lastReleases' = 0
    /\ UNCHANGED <<cap, opened, created, width, height, fps, devReq>>
    /\ UNCHANGED detVars

\* Camera.get_frame: raises unless self.cap is bound and open; otherwise one
\* cap.read(), whose ret decides between the frame and the capture error.
get_frame ==
    /\ \/ /\ ~is_opened
          /\ outcome' = ErrNotOpened
          /\ lastReads' = 0
       \/ /\ is_opened
          /\ \E ret \in BOOLEAN :
                outcome' = IF ret THEN "frame" ELSE ErrCapture
          /\ lastReads' = 1
    /\ lastOp' = "get_frame"
    /\ prevOp' = lastOp
    /\ lastArg' = <<>>
    /\ lastReleases' = 0
    /\ UNCHANGED <<cap, opened, created, width, height, fps, devReq>>
    /\ UNCHANGED detVars

\* Camera.stop releasing whenever self.cap is bound, open or not.
stop_NoOpenTest ==
    /\ \/ /\ cap # None
          /\ opened' = [opened EXCEPT ![cap] = FALSE]
          /\ lastReleases' = 1
       \/ /\ cap = None
          /\ opened' = opened
          /\ lastReleases' = 0
    /\ lastOp' = "stop"
    /\ prevOp' = lastOp
    /\ lastArg' = <<>>
    /\ outcome' = "ok"
    /\ lastReads' = 0
    /\ UNCHANGED <<cap, created, width, height, fps, devReq>>
    /\ UNCHANGED detVars

\* Camera.stop: releases self.cap if it is bound and open; self.cap stays bound.
stop ==
    /\ \/ /\ is_opened
          /\ opened' = [opened EXCEPT ![cap] = FALSE]
          /\ lastReleases' = 1
       \/ /\ ~is_opened
          /\ opened' = opened
          /\ lastReleases' = 0
    /\ lastOp' = "stop"
    /\ prevOp' = lastOp
    /\ lastArg' = <<>>
    /\ outcome' = "ok"
    /\ lastReads' = 0
    /\ UNCHANGED <<cap, created, width, height, fps, devReq>>
    /\ UNCHANGED detVars

\* A call of Camera.is_opened: a query, nothing changes but the result.
is_opened_call ==
    /\ lastOp' = "is_opened"
    /\ prevOp' = lastOp
    /\ lastArg' = <<>>
    /\ outcome' = IF is_opened THEN "True" ELSE "False"
    /\ lastReads' = 0
    /\ lastReleases' = 0
    /\ UNCHANGED <<cap, opened, created, width, height, fps, devReq>>
    /\ UNCHANGED detVars

\* Camera.set_resolution: stores both values, and requests them of an open
\* device.
set_resolution ==
    /\ \E w \in Widths, h \in Heights :
        /\ width' = w
        /\ height' = h
        /\ devReq' = IF is_opened THEN [devReq EXCEPT !.w = w, !.h = h]
                     ELSE devReq
        /\ lastArg' = <<w, h>>
    /\ lastOp' = "set_resolution"
    /\ prevOp' = lastOp
    /\ outcome' = "ok"
    /\ lastReads' = 0
    /\ lastReleases' = 0
    /\ UNCHANGED <<cap, opened, created, fps>>
    /\ UNCHANGED detVars

\* Camera.set_fps that stores the value and never requests it of the device.
set_fps_StoreOnly ==
    /\ \E f \in FpsValues :
        /\ fps' = f
        /\ lastArg' = <<f>>
    /\ lastOp' = "set_fps"
    /\ prevOp' = lastOp
    /\ outcome' = "ok"
    /\ lastReads' = 0
    /\ lastReleases' = 0
    /\ UNCHANGED <<cap, opened, created, width, height, devReq>>
    /\ UNCHANGED detVars

\* Camera.set_fps: stores the value, and requests it of an open device.
set_fps ==
    /\ \E f \in FpsValues :
        /\ fps' = f
        /\ devReq' = IF is_opened THEN [devReq EXCEPT !.fps = f] ELSE devReq
        /\ lastArg' = <<f>>
    /\ lastOp' = "set_fps"
    /\ prevOp' = lastOp
    /\ outcome' = "ok"
    /\ lastReads' = 0
    /\ lastReleases' = 0
    /\ UNCHANGED <<cap, opened, created, width, height>>
    /\ UNCHANGED detVars

(***************************************************************************)
(* Numbers. A Python or numpy float is modelled by the rational it stands  *)
(* for, num/den in lowest terms with den > 0; den = 0 stands for the       *)
(* non-finite values: 1/0 is inf, -1/0 is -inf and 0/0 is nan.             *)
(***************************************************************************)
Abs(n) == IF n < 0 THEN -n ELSE n

Sign(n) == IF n < 0 THEN -1 ELSE IF n > 0 THEN 1 ELSE 0

RECURSIVE GCD(_, _)
GCD(a, b) == IF b = 0 THEN a ELSE GCD(b, a % b)

Rat(n, d) ==
    IF d = 0 THEN [num |-> Sign(n), den |-> 0]
    ELSE LET g == GCD(Abs(n), Abs(d)) IN
         [num |-> Sign(d) * (n \div g), den |-> Abs(d) \div g]

Inf == [num |-> 1, den |-> 0]
NaN == [num |-> 0, den |-> 0]

IsFinite(q) == q.den # 0

\* Python's a // b for b > 0: the quotient rounded down.
FloorDiv(a, b) == a \div b

\* A quotient rounded toward zero, as C's integer division does.
TruncDiv(a, b) == Sign(a) * (Abs(a) \div b)

(***************************************************************************)
(* ObjectDetection (vision/detect.py)                                      *)
(***************************************************************************)
\* The known object heights the caller passes: 1.7 m and 2 m.
ObjectHeights == {Rat(17, 10), Rat(2, 1)}

\* The calibration matrices the caller passes, row by row. In the second the
\* two focal lengths differ.
ExampleMatrix == << <<800, 0, 320>>, <<0, 800, 240>>, <<0, 0, 1>> >>

CameraMatrices == {ExampleMatrix, << <<3, 0, 1>>, <<0, 2, 1>>, <<0, 0, 1>> >>}

\* The box of the worked example.
ExampleBox == <<100, 50, 300, 250>>

Coords == 0..MaxCoord

\* The boxes [x_min, y_min, x_max, y_max] given to the geometry methods: in
\* either order and of any height, zero included.
Boxes == (Coords \X Coords \X Coords \X Coords) \cup {ExampleBox}

NoRet == [exc |-> "", dist |-> NaN, center |-> <<0, 0>>, objects |-> <<>>]

NoData == [valid |-> FALSE, objects |-> <<>>]

NoFile == [exists |-> FALSE, docs |-> <<>>]

\* ObjectDetection.__init__: the matrix and the height are stored as given.
\* camera_matrix[1, 1] is a numpy scalar when the matrix is an ndarray and a
\* Python number when it is another container indexed by a pair.
ObjectDetectionInit(heights, matrices) ==
    /\ object_height \in heights
    /\ camera_matrix \in [numpy : BOOLEAN, m : matrices]
    /\ model \in {"xyxy rows", "rows with cls"}
    /\ call = "init"
    /\ bbox = <<0, 0, 0, 0>>
    /\ returned = NoRet
    /\ results = <<>>
    /\ frame = <<>>
    /\ object_data = NoData
    /\ file = NoFile
    /\ writes = 0

\* No ObjectDetection is in use.
DetectionIdle ==
    /\ object_height = Rat(17, 10)
    /\ camera_matrix = [numpy |-> TRUE, m |-> ExampleMatrix]
    /\ model = "xyxy rows"
    /\ call = "init"
    /\ bbox = <<0, 0, 0, 0>>
    /\ returned = NoRet
    /\ results = <<>>
    /\ frame = <<>>
    /\ object_data = NoData
    /\ file = NoFile
    /\ writes = 0

\* No Camera is in use.
CameraIdle ==
    /\ cap = None
    /\ opened = [h \in Handles |-> FALSE]
    /\ created = 0
    /\ width = 640
    /\ height = 480
    /\ fps = 60
    /\ devReq = Unset
    /\ lastOp = "init"
    /\ prevOp = "init"
    /\ lastArg = <<>>
    /\ outcome = "ok"
    /\ lastReads = 0
    /\ lastReleases = 0

\* (numerator) / pixel_height, Python's true division. Dividing by zero
\* raises ZeroDivisionError for Python numbers; a numpy scalar divided by
\* zero gives inf (nan for 0/0) and a warning, and no exception.
TrueDiv(q, k) ==
    IF k # 0 THEN [exc |-> "", val |-> Rat(q.num, q.den * k)]
    ELSE IF camera_matrix.numpy THEN [exc |-> "", val |-> Rat(q.num, 0)]
    ELSE [exc |-> "ZeroDivisionError", val |-> NaN]

\* camera_matrix[1, 1] (indices from 0): the vertical focal length.
focal_length == camera_matrix.m[2][2]

\* calculate_distance measuring the box's width instead of its height.
calculate_distance_Width(bounding_box) ==
    LET pixel_height == bounding_box[3] - bounding_box[1]
    IN  TrueDiv(Rat(object_height.num * focal_length, object_height.den),
                pixel_height)

\* ObjectDetection.calculate_distance:
\* (object_height * focal_length) / (y_max - y_min), with no test of the
\* divisor.
calculate_distance(bounding_box) ==
    LET pixel_height == bounding_box[4] - bounding_box[2]
    IN  TrueDiv(Rat(object_height.num * focal_length, object_height.den),
                pixel_height)

\* get_center with the halves rounded toward zero.
get_center_Trunc(bounding_box) ==
    << bounding_box[1] + TruncDiv(bounding_box[3] - bounding_box[1], 2),
       bounding_box[2] + TruncDiv(bounding_box[4] - bounding_box[2], 2) >>

\* ObjectDetection.get_center
get_center(bounding_box) ==
    << bounding_box[1] + FloorDiv(bounding_box[3] - bounding_box[1], 2),
       bounding_box[2] + FloorDiv(bounding_box[4] - bounding_box[2], 2) >>

\* A call of calculate_distance from outside.
calculate_distance_call ==
    /\ \E b \in Boxes :
        /\ bbox' = b
        /\ returned' = LET d == calculate_distance(b)
                  IN  [NoRet EXCEPT !.exc = d.exc, !.dist = d.val]
    /\ call' = "calculate_distance"
    /\ writes' = 0
    /\ UNCHANGED <<object_height, camera_matrix, model, results, frame,
                   object_data, file>>
    /\ UNCHANGED camVars

\* A call of get_center from outside.
get_center_call ==
    /\ \E b \in Boxes :
        /\ bbox' = b
        /\ returned' = [NoRet EXCEPT !.center = get_center(b)]
    /\ call' = "get_center"
    /\ writes' = 0
    /\ UNCHANGED <<object_height, camera_matrix, model, results, frame,
                   object_data, file>>
    /\ UNCHANGED camVars

GeometryNext ==
    \/ calculate_distance_call
    \/ get_center_call

GeometryInit ==
    CameraIdle /\ ObjectDetectionInit(ObjectHeights, CameraMatrices)

SpecGeometry == GeometryInit /\ [][GeometryNext]_vars

(***************************************************************************)
(* The detector's output and process_frame                                 *)
(***************************************************************************)
\* result.names: the class names by class index, indices from 0.
Names == <<"person", "car">>

\* The rows a result's boxes.xyxy may hold: four coordinates in half pixels
\* (the detector's coordinates are not whole numbers) and the class index of
\* the detection. In pixels: the example box with y_max = 250.5, a box of
\* height zero, and a small box.
Rows ==
    { [xyxy |-> <<200, 100, 600, 501>>, cls |-> 0],
      [xyxy |-> <<2, 4, 9, 5>>, cls |-> 1],
      [xyxy |-> <<0, 0, 6, 10>>, cls |-> 1] }

SeqsUpTo(S, n) == UNION {[1..k -> S] : k \in 0..n}

RECURSIVE Flatten(_)
\* for result in results: for box in result.boxes.xyxy: the rows in the
\* order the two loops visit them.
Flatten(res) ==
    IF res = <<>> THEN <<>> ELSE Head(res) \o Flatten(Tail(res))

\* What self.model(frame) may return for one frame: a list of one result
\* object, holding up to MaxDet rows.
DetectorOutputs == {<<rows>> : rows \in SeqsUpTo(Rows, MaxDet)}

\* int(v) of a coordinate of v/2 pixels: the fraction is cut off.
IntOf(v) == TruncDiv(v, 2)

\* x_min, y_min, x_max, y_max = map(int, box)
RowBox(row) ==
    <<IntOf(row.xyxy[1]), IntOf(row.xyxy[2]),
      IntOf(row.xyxy[3]), IntOf(row.xyxy[4])>>

\* ObjectDetection.detect_objects: one entry per row, in row order. The class
\* is looked up through box.cls, an attribute of the row: a row of
\* coordinates only (what boxes.xyxy of the detector library yields) has
\* none, and the lookup raises AttributeError at the first row.
detect_objects(res) ==
    LET rows == Flatten(res) IN
    IF rows # <<>> /\ model = "xyxy rows"
    THEN [exc |-> "AttributeError", objs |-> <<>>]
    ELSE [exc |-> "",
          objs |-> [i \in 1..Len(rows) |->
                      [class |-> Names[rows[i].cls + 1],
                       bounding_box |-> RowBox(rows[i])]]]

\* ObjectDetection.draw_bounding_box: the rectangle and the label, put ten
\* pixels above the box's first corner.
draw_bounding_box(bounding_box, obj_class) ==
    [rect |-> bounding_box,
     text |-> obj_class,
     org |-> <<bounding_box[1], bounding_box[2] - 10>>]

\* The record process_frame appends for one detection.
ObjectRecord(obj, distance) ==
    [class |-> obj.class,
     distance |-> distance,
     center |-> [type |-> "tuple", v |-> get_center(obj.bounding_box)]]

RECURSIVE ProcessLoop(_, _, _, _)
\* The loop of process_frame from detection i on: distance, center, append,
\* draw. An exception of calculate_distance ends the loop; what was drawn
\* before stays drawn.
ProcessLoop(objs, i, objects, drawn) ==
    IF i > Len(objs) THEN [exc |-> "", objects |-> objects, drawn |-> drawn]
    ELSE LET obj == objs[i]
             d == calculate_distance(obj.bounding_box)
         IN  IF d.exc # ""
             THEN [exc |-> d.exc, objects |-> objects, drawn |-> drawn]
             ELSE ProcessLoop(objs, i + 1,
                     Append(objects, ObjectRecord(obj, d.val)),
                     Append(drawn,
                            draw_bounding_box(obj.bounding_box, obj.class)))

\* The body of process_frame: detect_objects, whose exception leaves the
\* frame untouched, then the loop over what it returned.
ProcessFrameResult(res) ==
    LET det == detect_objects(res) IN
    IF det.exc # ""
    THEN [exc |-> det.exc, objects |-> <<>>, drawn |-> <<>>]
    ELSE ProcessLoop(det.objs, 1, <<>>, <<>>)

\* ObjectDetection.process_frame on a fresh frame: detect, then the loop, then
\* return object_data. It writes no file. When it raises, the caller gets no
\* dictionary and keeps the one it had.
process_frame ==
    /\ \E res \in DetectorOutputs :
        \E out \in {ProcessFrameResult(res)} :
            /\ results' = res
            /\ frame' = out.drawn
            /\ returned' = IF out.exc = ""
                           THEN [NoRet EXCEPT !.objects = out.objects]
                           ELSE [NoRet EXCEPT !.exc = out.exc]
            /\ object_data' = IF out.exc = ""
                              THEN [valid |-> TRUE, objects |-> out.objects]
                              ELSE object_data
    /\ call' = "process_frame"
    /\ writes' = 0
    /\ UNCHANGED <<object_height, camera_matrix, model, bbox, file>>
    /\ UNCHANGED camVars

(***************************************************************************)
(* The output file. Its content is the sequence of JSON documents written  *)
(* to it; indentation is white space and not modelled.                     *)
(***************************************************************************)
\* The JSON text of a float: a number, or the words json.dump writes for the
\* non-finite values.
JsonOfFloat(q) ==
    IF IsFinite(q) THEN [lit |-> "number", num |-> q.num, den |-> q.den]
    ELSE IF q.num > 0 THEN [lit |-> "Infinity", num |-> 0, den |-> 1]
    ELSE IF q.num < 0 THEN [lit |-> "-Infinity", num |-> 0, den |-> 1]
    ELSE [lit |-> "NaN", num |-> 0, den |-> 1]

\* json.dump of {"objects": [...]}: each record an object, the class a
\* string, the distance a float, the center tuple an array.
json_dump(objects) ==
    [objects |->
        [i \in 1..Len(objects) |->
            [class |-> objects[i].class,
             distance |-> JsonOfFloat(objects[i].distance),
             center |-> objects[i].center.v]]]

\* What json.load makes of a float's text.
FloatOfJson(j) ==
    IF j.lit = "number" THEN Rat(j.num, j.den)
    ELSE IF j.lit = "Infinity" THEN Rat(1, 0)
    ELSE IF j.lit = "-Infinity" THEN Rat(-1, 0)
    ELSE NaN

\* json.load of the file: one document is wanted; an array is read as a list.
json_load(f) ==
    IF ~f.exists THEN [exc |-> "FileNotFoundError", objects |-> <<>>]
    ELSE IF Len(f.docs) # 1 THEN [exc |-> "JSONDecodeError", objects |-> <<>>]
    ELSE [exc |-> "",
          objects |->
            [i \in 1..Len(f.docs[1].objects) |->
                [class |-> f.docs[1].objects[i].class,
                 distance |-> FloatOfJson(f.docs[1].objects[i].distance),
                 center |-> [type |-> "list",
                             v |-> f.docs[1].objects[i].center]]]]

\* save_to_json opening the file to append instead of to write.
save_to_json_Append ==
    /\ object_data.valid
    /\ file' = [exists |-> TRUE,
                docs |-> Append(file.docs, json_dump(object_data.objects))]
    /\ call' = "save_to_json"
    /\ returned' = NoRet
    /\ writes' = 1
    /\ UNCHANGED <<object_height, camera_matrix, model, bbox, results, frame,
                   object_data>>
    /\ UNCHANGED camVars

\* ObjectDetection.save_to_json of the dictionary process_frame returned:
\* open(filename, 'w') empties the file, json.dump writes the one document.
save_to_json ==
    /\ object_data.valid
    /\ file' = [exists |-> TRUE, docs |-> <<json_dump(object_data.objects)>>]
    /\ call' = "save_to_json"
    /\ returned' = NoRet
    /\ writes' = 1
    /\ UNCHANGED <<object_height, camera_matrix, model, bbox, results, frame,
                   object_data>>
    /\ UNCHANGED camVars

\* The caller reloads the file with json.load.
reload ==
    /\ returned' = LET got == json_load(file)
                   IN  [NoRet EXCEPT !.exc = got.exc, !.objects = got.objects]
    /\ call' = "reload"
    /\ writes' = 0
    /\ UNCHANGED <<object_height, camera_matrix, model, bbox, results, frame,
                   object_data, file>>
    /\ UNCHANGED camVars

FrameNext ==
    \/ process_frame
    \/ save_to_json
    \/ reload

\* The frames are processed with the calibration of the worked example.
FrameInit ==
    CameraIdle /\ ObjectDetectionInit({Rat(17, 10)}, {ExampleMatrix})

SpecFrame == FrameInit /\ [][FrameNext]_vars

CameraNext ==
    \/ start
    \/ get_frame
    \/ stop
    \/ is_opened_call
    \/ set_resolution
    \/ set_fps

CameraSpecInit == CameraInit /\ DetectionIdle

SpecCamera == CameraSpecInit /\ [][CameraNext]_vars

(***************************************************************************)
(* Properties of the Camera                                                *)
(***************************************************************************)
\* C1: get_frame() called while the camera is not open (never started, start
\* failed, or stopped) raises the not-opened error without reading the
\* device, and a frame is returned only from a state where is_opened() holds.
C1_GetFrameNeedsOpen ==
    [][lastOp' = "get_frame" =>
        /\ (~is_opened => outcome' = ErrNotOpened /\ lastReads' = 0)
        /\ (outcome' = "frame" => is_opened /\ lastReads' = 1)]_vars

\* get_frame() has just failed on a camera whose VideoCapture exists but is
\* closed (stopped, or never opened).
C1_Witness ==
    /\ lastOp = "get_frame"
    /\ cap # None
    /\ ~is_opened
    /\ outcome = ErrNotOpened
    /\ lastReads = 0

\* C2: once stop() has returned, no VideoCapture opened by an earlier start()
\* of this Camera is still open.
C2_StopReleasesEveryHandle ==
    lastOp = "stop" => \A h \in Handles : ~opened[h]

\* C3: stop() never fails and issues at most one release; a stop() that
\* directly follows a stop() issues none and changes nothing of the Camera
\* or the device.
C3_StopIdempotent ==
    [][lastOp' = "stop" =>
        /\ outcome' = "ok"
        /\ lastReleases' <= 1
        /\ ~is_opened'
        /\ (lastOp = "stop" =>
                /\ lastReleases' = 0
                /\ <<cap, opened, created, width, height, fps, devReq>>' =
                   <<cap, opened, created, width, height, fps, devReq>>)]_vars

\* stop() was called twice in a row on a camera that had been opened.
C3_Witness ==
    /\ lastOp = "stop"
    /\ prevOp = "stop"
    /\ cap # None
    /\ devReq # Unset
    /\ lastReleases = 0

\* The stored configuration, as a request to the device.
StoredConfig == [w |-> width, h |-> height, fps |-> fps]

\* C10: the setters store their arguments and neither open nor close the
\* device, and whenever the device is open the properties last requested of
\* it are the stored width, height and fps.
C10_ConfigInSync ==
    /\ [](is_opened => devReq = StoredConfig)
    /\ [][(lastOp' = "set_resolution" =>
                /\ <<width', height'>> = lastArg'
                /\ <<cap, opened, fps>>' = <<cap, opened, fps>>)
          /\ (lastOp' = "set_fps" =>
                /\ <<fps'>> = lastArg'
                /\ <<cap, opened, width, height>>' =
                   <<cap, opened, width, height>>)]_vars

\* set_fps(30) has just been called on the camera that start() opened, and
\* the device was asked for 30.
C10_Witness ==
    /\ lastOp = "set_fps"
    /\ prevOp = "start"
    /\ is_opened
    /\ devReq.fps = 30
    /\ fps = 30
    /\ lastArg = <<30>>

(***************************************************************************)
(* Properties of the geometry methods                                      *)
(***************************************************************************)
\* C4: for a box with y_max > y_min, calculate_distance returns the number
\* object_height * camera_matrix[1,1] / (y_max - y_min), whatever x_min,
\* x_max and the other entries of the matrix are; with focal length 800 and
\* height 1.7 the box (100,50,300,250) gives 6.8.
C4_DistanceFormula ==
    (call = "calculate_distance" /\ bbox[4] > bbox[2]) =>
        /\ returned.exc = ""
        /\ IsFinite(returned.dist)
        /\ returned.dist.num * object_height.den * (bbox[4] - bbox[2]) =
           object_height.num * camera_matrix.m[2][2] * returned.dist.den
        /\ (/\ object_height = [num |-> 17, den |-> 10]
            /\ camera_matrix.m[2][2] = 800
            /\ bbox = ExampleBox) => returned.dist = [num |-> 34, den |-> 5]

\* calculate_distance has returned 6.8 for the worked example.
C4_Witness ==
    /\ call = "calculate_distance"
    /\ bbox = ExampleBox
    /\ object_height = [num |-> 17, den |-> 10]
    /\ camera_matrix.m[2][2] = 800
    /\ returned.dist = [num |-> 34, den |-> 5]

\* A box with x_min # x_max and a matrix whose focal lengths differ, for
\* which calculate_distance has returned a finite distance.
C4_WitnessIndependence ==
    /\ call = "calculate_distance"
    /\ bbox = <<0, 0, 2, 1>>
    /\ camera_matrix.m[1][1] # camera_matrix.m[2][2]
    /\ returned.dist = [num |-> 2 * object_height.num, den |-> object_height.den]

\* C5 as stated: for every box, ordered or not, get_center returns
\* (x_min + (x_max-x_min)//2, y_min + (y_max-y_min)//2), and when the exact
\* midpoint is not an integer the result is its neighbour on the x_min
\* (y_min) side.
C5_CenterRoundsTowardMin ==
    call = "get_center" =>
        \A a \in {1, 2} :
            LET lo == bbox[a]
                hi == bbox[a + 2]
                c == returned.center[a]
            IN  /\ c = lo + ((hi - lo) \div 2)
                /\ (lo + hi) % 2 = 1 =>
                       /\ Abs(2 * c - (lo + hi)) = 1
                       /\ (lo < hi => 2 * c < lo + hi)
                       /\ (lo > hi => 2 * c > lo + hi)

\* C5 as amended: on each axis get_center returns the exact midpoint of the
\* two coordinates rounded down; that is the neighbour on the x_min (y_min)
\* side for an ordered box and on the x_max (y_max) side for a reversed one.
C5_CenterIsMidpointRoundedDown ==
    call = "get_center" =>
        \A a \in {1, 2} :
            LET lo == bbox[a]
                hi == bbox[a + 2]
                c == returned.center[a]
            IN  /\ 2 * c <= lo + hi
                /\ lo + hi <= 2 * c + 1
                /\ ((lo + hi) % 2 = 1 /\ lo < hi) => (lo <= c /\ 2 * c < lo + hi)
                /\ ((lo + hi) % 2 = 1 /\ lo > hi) => (hi <= c /\ 2 * c < lo + hi)

\* get_center of a reversed box whose midpoint, 1/2, is not an integer: the
\* result is 0, on the x_max side.
C5_Witness ==
    /\ call = "get_center"
    /\ bbox = <<1, 0, 0, 1>>
    /\ returned.center = <<0, 0>>

\* C6: for a box with y_max = y_min, calculate_distance ends in an error
\* instead of a distance.
C6_ZeroHeightIsAnError ==
    (call = "calculate_distance" /\ bbox[4] = bbox[2]) => returned.exc # ""

(***************************************************************************)
(* Properties of process_frame and of the output file                      *)
(***************************************************************************)
\* The rows of the frame processed last, and their boxes in whole pixels.
LastRows == IF results = <<>> THEN <<>> ELSE results[1]

LastBox(i) == RowBox(LastRows[i])

AllBoxesUpright == \A i \in 1..Len(LastRows) : LastBox(i)[4] > LastBox(i)[2]

\* The i-th record and the i-th drawing are those of the i-th detection.
RecordMatches(i) ==
    LET rec == returned.objects[i]
        box == LastBox(i)
    IN  /\ rec.class = Names[LastRows[i].cls + 1]
        /\ IsFinite(rec.distance)
        /\ rec.distance.num * object_height.den * (box[4] - box[2]) =
           object_height.num * camera_matrix.m[2][2] * rec.distance.den
        /\ 2 * rec.center.v[1] <= box[1] + box[3]
        /\ box[1] + box[3] <= 2 * rec.center.v[1] + 1
        /\ 2 * rec.center.v[2] <= box[2] + box[4]
        /\ box[2] + box[4] <= 2 * rec.center.v[2] + 1
        /\ frame[i].rect = box
        /\ frame[i].text = rec.class

\* C7: for a detector output of n detections, each with y_max > y_min,
\* process_frame returns n records in the detector's order, the i-th holding
\* the class, distance and center of the i-th detection, and draws one
\* rectangle and label per detection in that order.
C7_OneRecordPerDetection ==
    (call = "process_frame" /\ AllBoxesUpright) =>
        /\ returned.exc = ""
        /\ Len(returned.objects) = Len(LastRows)
        /\ Len(frame) = Len(LastRows)
        /\ \A i \in 1..Len(LastRows) : RecordMatches(i)

\* The same for a detector whose rows do carry a cls attribute: the loop of
\* process_frame itself keeps count and order.
LoopKeepsCountAndOrder ==
    (call = "process_frame" /\ AllBoxesUpright /\ model = "rows with cls") =>
        /\ returned.exc = ""
        /\ Len(returned.objects) = Len(LastRows)
        /\ Len(frame) = Len(LastRows)
        /\ \A i \in 1..Len(LastRows) : RecordMatches(i)

\* Python's == on two floats: nan equals nothing.
PyEq(p, q) == p = q /\ p # NaN

C9_ProcessFrameSaves ==
    (call = "process_frame" /\ returned.exc = "") =>
        /\ writes >= 1
        /\ file.exists
        /\ file.docs = <<json_dump(returned.objects)>>

====
